---- MODULE Spec2Model ----
(***************************************************************************)
(* A model of the FNOGNO / GNOBlock core of neuraloperator.                *)
(*                                                                         *)
(* Tensors are modelled by what the claims need of them: a symbolic        *)
(* identity (which tensor), a width or a list of widths (what shape), or   *)
(* a small integer grid (which entries).  An optional argument is the      *)
(* empty sequence (None) or a one-element sequence.                        *)
(*                                                                         *)
(* The module holds one state machine per component, over one set of       *)
(* variables; a component's specification leaves the other components'     *)
(* variables at their initial values.                                      *)
(*   SpecFNOGNO  FNOGNO.__init__ and FNOGNO.forward                        *)
(*   SpecGNO     GNOBlock.__init__ and GNOBlock.forward                    *)
(*   SpecNbr     NeighborSearch, both strategies                           *)
(*   SpecSeg     test_segment_csr_backward                                 *)
(*   SpecFNO     the incremental spectral convolution under training       *)
(***************************************************************************)
EXTENDS Integers, Sequences, FiniteSets, TLC

VARIABLES
    fnogno,          \* the FNOGNO object last constructed (NoModel before)
    ada_in_embed,    \* the embedding held by fnogno.fno.fno_blocks
    default_layers,  \* the list object that is the default of
                     \* gno_channel_mixing_hidden_layers
    n_constructed,   \* FNOGNO constructions so far
    last_call,       \* the last FNOGNO.forward call: its arguments and result
    gno,             \* the outcome of the last GNOBlock construction
    gno_call,        \* the last GNOBlock.forward call: its arguments and result
    points,          \* the point sets and radius given to NeighborSearch
    found,           \* what the two search strategies returned for them
    seg_test,        \* test_segment_csr_backward: splits and data drawn
    seg_call,        \* the last segment_csr call: its arguments and result
    n_modes,         \* SpectralConv: the configured maximum mode counts
    starting_modes,  \* the incremental_n_modes the block was constructed with
    incremental_n_modes, \* SpectralConv: the current mode counts
    weight,          \* SpectralConv: the weight tensor, by mode index
    weight_grad,     \* SpectralConv: the gradient the last backward left
    csr_call,        \* one segment_csr call: its arguments and result
    config,          \* train_car_cfd: the configuration read
    script,          \* train_car_cfd: where the script is and what it has built
    lp_in,           \* LpLoss.abs: the tensors x and y of the calls
    lp_out           \* LpLoss.abs: what each reduction returned for them

fnogno_vars == <<fnogno, ada_in_embed, default_layers, n_constructed, last_call>>

gno_vars == <<gno, gno_call>>

nbr_vars == <<points, found>>

seg_vars == <<seg_test, seg_call, csr_call>>

fno_vars == <<n_modes, starting_modes, incremental_n_modes, weight, weight_grad>>

script_vars == <<config, script>>

loss_vars == <<lp_in, lp_out>>

vars == <<fnogno_vars, gno_vars, nbr_vars, seg_vars, fno_vars,
          script_vars, loss_vars>>

----------------------------------------------------------------------------
(* Optional values. *)

None == <<>>

Some(v) == <<v>>

IsNone(o) == o = <<>>

Get(o) == o[1]

----------------------------------------------------------------------------
(* Bounds of the model. *)

\* FNOGNO constructions in one behaviour
MaxConstructs == 2

\* distinct ada_in vectors a caller passes
NumAdaIn == 2

\* test_segment_csr_backward draws 20 segment lengths below 10: the model
\* draws NumDraws lengths below DrawBelow
NumDraws == 4

DrawBelow == 3

\* the largest n_modes of a dimension, the largest step of one increase, and
\* the largest magnitude a weight entry is followed to
MaxModes == 3

MaxStep == 2

MaxWeight == 2

\* coordinates of the points given to NeighborSearch are 0..MaxCoord, its
\* radius is 1..MaxRadius
MaxCoord == 2

MaxRadius == 2

\* train_car_cfd: sdf_query_resolution is 1..MaxRes and an entry of fno_n_modes
\* is 1..MaxRes+1
MaxRes == 2

\* LpLoss.abs: a batch has 1..MaxBatch samples with entries 0..MaxEntry
MaxBatch == 2

MaxEntry == 1

\* segment_csr: up to MaxRows rows of values 0..MaxValue, in up to MaxSegs segments
MaxRows == 3

MaxValue == 2

MaxSegs == 3

\* FNOGNO.forward: the latent grid has 1..MaxSide points along an axis
MaxSide == 2

----------------------------------------------------------------------------
(* FNOGNO: configuration values. *)

TransformTypes == {"linear_kernelonly", "linear", "nonlinear_kernelonly", "nonlinear"}

\* fno_hidden_channels of the constructor's signature
DefaultHiddenChannels == 64

\* the widths of the default gno_channel_mixing_hidden_layers=[512, 256]
DefaultLayers == <<512, 256>>

\* gno_coord_dim: 3 is the default, 2 the other dimension the docs name
CoordDims == {2, 3}

\* gno_coord_embed_dim: None, or the width of the sinusoidal embedding
CoordEmbedDims == {None, Some(4)}

\* fno_norm: None (no normalisation layer) or 'ada_in'
FnoNorms == {"None", "ada_in"}

\* fno_ada_in_features
AdaInFeatures == {None, Some(4)}

\* fno_ada_in_dim of the constructor's signature
DefaultAdaInDim == 1

\* len(fno_n_modes): the rank of the latent grid
GridRanks == {2, 3}

\* the constructions followed by configuration and ada_in: the batching and
\* the rank of the grid are at their defaults here and vary in LatentArgs
FNOGNOArgs ==
    [ gno_coord_dim       : CoordDims,
      gno_coord_embed_dim : CoordEmbedDims,
      gno_transform_type  : TransformTypes,
      gno_use_open3d      : BOOLEAN,
      gno_batched         : {FALSE},
      fno_rank            : {3},
      fno_hidden_channels : {DefaultHiddenChannels},
      fno_norm            : FnoNorms,
      fno_ada_in_features : AdaInFeatures,
      fno_domain_padding  : {None},
      fno_domain_padding_mode : {"one-sided"},
      in_channels         : {1},
      out_channels        : {2},
      layers_given        : BOOLEAN ]

\* fno_domain_padding: None, or the fraction num/den of every spatial dimension
DomainPaddings == {None, Some(<<1, 4>>), Some(<<1, 2>>)}

\* the constructions whose forward is followed through the tensors: in_p has
\* the coordinates of the dimension both the FNO and the GNO are built for
LatentArgs ==
    { a \in [ gno_coord_dim       : CoordDims,
              gno_coord_embed_dim : CoordEmbedDims,
              gno_transform_type  : {"linear"},
              gno_use_open3d      : {FALSE},
              gno_batched         : BOOLEAN,
              fno_rank            : GridRanks,
              fno_hidden_channels : {DefaultHiddenChannels},
              fno_norm            : {"None"},
              fno_ada_in_features : {None},
              fno_domain_padding  : DomainPaddings,
              fno_domain_padding_mode : {"one-sided", "symmetric"},
              in_channels         : {1},
              out_channels        : {2},
              layers_given        : {TRUE} ] :
        /\ a.gno_coord_dim = a.fno_rank
        /\ IsNone(a.fno_domain_padding) => a.fno_domain_padding_mode = "one-sided" }

\* the hidden layers a caller passes when it does not use the default
CallerLayers == <<128>>

----------------------------------------------------------------------------
(* FNOGNO.__init__ *)

NoModel == [ constructed |-> FALSE ]

\* lines 173-188: the axis orders for permute
ForwardOrder(k, batched) ==
    [ j \in 1..k |-> IF batched THEN j ELSE j - 1 ]

\* mutant of ReverseOrder: the spatial axes are taken last to first
ReverseOrderLastFirst(k, batched) ==
    [ j \in 1..k |-> IF batched THEN k + 2 - j ELSE k + 1 - j ]

ReverseOrder(k, batched) ==
    [ j \in 1..k |-> IF batched THEN j + 1 ELSE j ]

\* lines 190-198: "unset" is an attribute that was never assigned
AdainPosEmbed(a) ==
    IF a.fno_norm = "ada_in"
    THEN IF ~IsNone(a.fno_ada_in_features) THEN "embed" ELSE "unset"
    ELSE "None"

AdaInDim(a) ==
    IF a.fno_norm = "ada_in"
    THEN IF ~IsNone(a.fno_ada_in_features)
         THEN Some(DefaultAdaInDim * Get(a.fno_ada_in_features))
         ELSE Some(DefaultAdaInDim)
    ELSE None

\* lines 238-243
GnoCoordDimEmbed(a) ==
    IF ~IsNone(a.gno_coord_embed_dim)
    THEN a.gno_coord_dim * Get(a.gno_coord_embed_dim)
    ELSE a.gno_coord_dim

\* lines 245-246
FNOGNOKernelInDim(a) ==
    2 * GnoCoordDimEmbed(a)
      + (IF a.gno_transform_type # "linear" THEN a.fno_hidden_channels ELSE 0)

\* lines 248-249: insert and append act on the list object that was passed
MixingLayers(a, passed) ==
    <<FNOGNOKernelInDim(a)>> \o passed \o <<a.fno_hidden_channels>>

\* lines 159-163 and 235: a coordinate dimension Open3D does not support is
\* reported by print, and the search object is built all the same
FNOGNOInitFails(a) == FALSE

FNOGNOObject(a, passed) ==
    [ constructed    |-> TRUE,
      args           |-> a,
      open3d_warning |-> (a.gno_coord_dim # 3 /\ a.gno_use_open3d),
      dim_warning    |-> (a.fno_rank # a.gno_coord_dim),
      in_coord_dim   |-> a.fno_rank,
      forward_order  |-> ForwardOrder(a.fno_rank, a.gno_batched),
      reverse_order  |-> ReverseOrder(a.fno_rank, a.gno_batched),
      gno_batched    |-> a.gno_batched,
      adain_pos_embed |-> AdainPosEmbed(a),
      ada_in_dim     |-> AdaInDim(a),
      use_open3d     |-> a.gno_use_open3d,
      gno_coord_dim  |-> a.gno_coord_dim,
      gno_coord_dim_embed |-> GnoCoordDimEmbed(a),
      kernel_layers  |-> MixingLayers(a, passed),
      transform_type |-> a.gno_transform_type,
      fno_norm       |-> a.fno_norm ]

\* no embedding has been set on the blocks
NoEmbed == <<"unset", 0>>

NoCall == [ made |-> FALSE ]

\* A construction reads nothing that forward writes (ada_in_embed and last_call
\* belong to the object it replaces), so the constructions of a behaviour are
\* taken before the calls on the last object: the reachable states are the same.
Construct(a) ==
    /\ n_constructed < MaxConstructs
    /\ ~last_call.made
    /\ ~FNOGNOInitFails(a)
    /\ LET passed == IF a.layers_given THEN CallerLayers ELSE default_layers
       IN /\ fnogno' = FNOGNOObject(a, passed)
          /\ default_layers' = IF a.layers_given THEN default_layers
                               ELSE MixingLayers(a, passed)
    /\ ada_in_embed' = NoEmbed
    /\ n_constructed' = n_constructed + 1
    /\ last_call' = NoCall

----------------------------------------------------------------------------
(* Tensors, by layout.  A tensor is the sequence of its axes; an axis has  *)
(* a kind ("n": spatial axis j of the latent grid, "b": batch, "c":        *)
(* channels or coordinates, "q": query points), a size, and the origin:    *)
(* the position along the axis that holds position 0 of the data it was    *)
(* made from (padding moves it).  An operation that torch rejects gives    *)
(* Raised, and Raised propagates.                                          *)

Axis(kind, j, size) == [ kind |-> kind, j |-> j, size |-> size, origin |-> 0 ]

Tensor(dims) == [ ok |-> TRUE, dims |-> dims ]

Raised == [ ok |-> FALSE, dims |-> <<>> ]

NDim(t) == Len(t.dims)

Shape(t) == [ i \in 1..NDim(t) |-> t.dims[i].size ]

RECURSIVE Product(_)
Product(sizes) == IF sizes = <<>> THEN 1 ELSE Head(sizes) * Product(Tail(sizes))

NumEl(t) == Product(Shape(t))

\* a negative axis counts from the end
AxisAt(a, n) == IF a < 0 THEN a + n ELSE a

\* Tensor.permute(*order), axes 0-based
Permute(t, order) ==
    IF ~t.ok THEN Raised
    ELSE LET n  == NDim(t)
             ax == [ i \in 1..Len(order) |-> AxisAt(order[i], n) ]
         IN IF /\ Len(order) = n
               /\ \A i \in 1..n : ax[i] \in 0..(n - 1)
               /\ \A i \in 1..n : \A k \in 1..n : i # k => ax[i] # ax[k]
            THEN Tensor([ i \in 1..n |-> t.dims[ax[i] + 1] ])
            ELSE Raised

\* Tensor.repeat([b] + [1] * ndim): a new leading axis of b copies
Repeat(t, b) ==
    IF ~t.ok THEN Raised ELSE Tensor(<<Axis("b", 0, b)>> \o t.dims)

\* torch.cat((a, b), dim=-1): the same number of axes, of the same sizes but
\* for the last
Cat(a, b) ==
    IF ~a.ok \/ ~b.ok THEN Raised
    ELSE IF /\ NDim(a) = NDim(b)
            /\ \A i \in 1..(NDim(a) - 1) : a.dims[i].size = b.dims[i].size
         THEN Tensor([ a.dims EXCEPT ![NDim(a)].size = @ + b.dims[NDim(b)].size ])
         ELSE Raised

Unsqueeze0(t) ==
    IF ~t.ok THEN Raised ELSE Tensor(<<Axis("b", 0, 1)>> \o t.dims)

\* Tensor.squeeze(0): axis 0 goes when its size is 1
Squeeze0(t) ==
    IF ~t.ok THEN Raised
    ELSE IF t.dims[1].size = 1 THEN Tensor(Tail(t.dims)) ELSE t

\* a pointwise network over the channels, axis 1: it takes the width it was
\* built for and gives the width it was built to give
Channels(t, width_in, width_out) ==
    IF ~t.ok THEN Raised
    ELSE IF NDim(t) >= 2 /\ t.dims[2].size = width_in
         THEN Tensor([ t.dims EXCEPT ![2] = Axis("c", 0, width_out) ])
         ELSE Raised

\* Tensor.reshape(lead + (-1, width)): the tensor read in row-major order as
\* rows of `width` entries, in `lead` groups
Reshape(t, lead, width) ==
    IF ~t.ok THEN Raised
    ELSE IF NumEl(t) % (Product(lead) * width) = 0
         THEN Tensor([ i \in 1..Len(lead) |-> Axis("b", 0, lead[i]) ]
                       \o <<Axis("q", 0, NumEl(t) \div (Product(lead) * width)),
                            Axis("c", 0, width)>>)
         ELSE Raised

\* the position of entry number lin (row-major, from 0) along axis i
IndexAt(t, lin, i) ==
    (lin \div Product(SubSeq(Shape(t), i + 1, NDim(t)))) % t.dims[i].size

\* what entry number lin of t holds: for every axis of the data, the position
\* of the data along it
EntryAt(t, lin) ==
    { <<t.dims[i].kind, t.dims[i].j, IndexAt(t, lin, i) - t.dims[i].origin>> :
        i \in 1..NDim(t) }

----------------------------------------------------------------------------
(* DomainPadding: pad adds round(fraction * size) zeros to every spatial   *)
(* axis (axes 2.. of a (batch, channels, n_1, ..., n_k) tensor), at the    *)
(* end ('one-sided') or at both ends ('symmetric'); unpad removes them.    *)

\* round(num / den) as Python rounds: a half goes to the even neighbour
Round(num, den) ==
    LET q == num \div den
        r == num % den
    IN IF 2 * r < den THEN q
       ELSE IF 2 * r > den THEN q + 1
       ELSE IF q % 2 = 0 THEN q ELSE q + 1

PadAmounts(t, fraction) ==
    [ i \in 1..NDim(t) |->
        IF i <= 2 THEN 0 ELSE Round(fraction[1] * t.dims[i].size, fraction[2]) ]

Pad(t, amounts, mode) ==
    IF ~t.ok THEN Raised
    ELSE Tensor([ i \in 1..NDim(t) |->
                    IF mode = "symmetric"
                    THEN [ t.dims[i] EXCEPT !.size = @ + 2 * amounts[i],
                                            !.origin = @ + amounts[i] ]
                    ELSE [ t.dims[i] EXCEPT !.size = @ + amounts[i] ] ])

Unpad(t, amounts, mode) ==
    IF ~t.ok THEN Raised
    ELSE Tensor([ i \in 1..NDim(t) |->
                    IF mode = "symmetric"
                    THEN [ t.dims[i] EXCEPT !.size = @ - 2 * amounts[i],
                                            !.origin = @ - amounts[i] ]
                    ELSE [ t.dims[i] EXCEPT !.size = @ - amounts[i] ] ])

----------------------------------------------------------------------------
(* FNOGNO.forward *)

\* the ada_in argument of a call
AdaIns == {None} \cup { Some(i) : i \in 1..NumAdaIn }

\* SinusoidalEmbedding2D applied to ada_in, and ada_in passed as it is
Embedded(ada_in) == <<"sinusoidal", Get(ada_in)>>

Plain(ada_in) == <<"plain", Get(ada_in)>>

\* lines 289-295: the embedding handed to set_ada_in_embeddings
AdaInEmbedOf(m, ada_in) ==
    IF m.adain_pos_embed # "None" THEN Embedded(ada_in) ELSE Plain(ada_in)

\* lines 289-290: reading an attribute that was never assigned raises
LatentEmbeddingRaises(m, ada_in) ==
    ~IsNone(ada_in) /\ m.adain_pos_embed = "unset"

\* line 295: the embedding the blocks hold once latent_embedding has run
EmbedAfter(m, held, ada_in) ==
    IF ~IsNone(ada_in) /\ ~LatentEmbeddingRaises(m, ada_in)
    THEN AdaInEmbedOf(m, ada_in)
    ELSE held

\* lines 303-304: adaptive instance normalisation conditions the blocks on the
\* embedding they hold; another normalisation reads none
BlocksRead(m, held) ==
    IF m.fno_norm = "ada_in" THEN held ELSE <<"not read", 0>>

\* lines 382-388: the result of forward, as the values it is computed from
ForwardResult(m, held, ada_in) ==
    IF LatentEmbeddingRaises(m, ada_in)
    THEN [ status |-> "AttributeError", conditioning |-> <<"not read", 0>> ]
    ELSE [ status |-> "ok",
           conditioning |-> BlocksRead(m, EmbedAfter(m, held, ada_in)) ]

\* the tensors of a call.  in_p : (n_1, ..., n_k, k); out_p : (n_out,
\* gno_coord_dim); f : (n_1, ..., n_k, in_channels), after a batch axis if any
InShapes == UNION { [ 1..k -> 1..MaxSide ] : k \in GridRanks }

FBatches == {None} \cup { Some(b) : b \in 1..MaxBatch }

QueryCounts == {3}

InP(in_shape) ==
    Tensor([ j \in 1..Len(in_shape) |-> Axis("n", j, in_shape[j]) ]
             \o <<Axis("c", 0, Len(in_shape))>>)

OutP(m, n_out) == Tensor(<<Axis("q", 0, n_out), Axis("c", 0, m.gno_coord_dim)>>)

FOf(m, in_shape, f_batch) ==
    Tensor((IF IsNone(f_batch) THEN <<>> ELSE <<Axis("b", 0, Get(f_batch))>>)
             \o [ j \in 1..Len(in_shape) |-> Axis("n", j, in_shape[j]) ]
             \o <<Axis("c", 0, m.args.in_channels)>>)

\* lines 276-286: in_p as the blocks take it, (b, channels, n_1, ..., n_k)
LatentInput(m, in_p, f) ==
    LET batch_size == f.dims[1].size
        repeated   == IF m.gno_batched THEN Repeat(in_p, batch_size) ELSE in_p
        joined     == Cat(f, repeated)
    IN IF m.gno_batched
       THEN Permute(joined, <<0, -1>> \o m.forward_order)
       ELSE Unsqueeze0(Permute(joined, <<-1>> \o m.forward_order))

\* line 299, with line 203: the lifting takes in_channels + in_coord_dim
\* channels of a grid of in_coord_dim dimensions
Lifting(m, t) ==
    IF t.ok /\ NDim(t) = m.in_coord_dim + 2
    THEN Channels(t, m.args.in_channels + m.in_coord_dim, m.args.fno_hidden_channels)
    ELSE Raised

\* the padding pad computes for the grid it is given
PaddingOf(m, t) ==
    IF IsNone(m.args.fno_domain_padding) THEN [ i \in 1..NDim(t) |-> 0 ]
    ELSE PadAmounts(t, Get(m.args.fno_domain_padding))

\* lines 300-301
PadStage(m, t) ==
    IF ~IsNone(m.args.fno_domain_padding)
    THEN Pad(t, PaddingOf(m, t), m.args.fno_domain_padding_mode)
    ELSE t

\* lines 303-304: the blocks return a grid of the extent they are given
Blocks(m, t) == t

\* mutant of UnpadStage: the grid is returned as the blocks left it
UnpadStageSkipped(m, t, amounts) == t

\* lines 306-307
UnpadStage(m, t, amounts) ==
    IF ~IsNone(m.args.fno_domain_padding)
    THEN Unpad(t, amounts, m.args.fno_domain_padding_mode)
    ELSE t

\* mutant of LatentReturn: the leading axis is squeezed whatever the flag
LatentReturnSqueezed(m, t) == Squeeze0(t)

\* lines 309-312
LatentReturn(m, t) == IF m.gno_batched THEN t ELSE Squeeze0(t)

\* lines 275-312
LatentEmbedding(m, in_p, f) ==
    LET lifted == Lifting(m, LatentInput(m, in_p, f))
        padded == PadStage(m, lifted)
        mixed  == Blocks(m, padded)
    IN LatentReturn(m, UnpadStage(m, mixed, PaddingOf(m, lifted)))

\* lines 350-358: the latent grid with the channels last, before the reshape
LatentChannelsLast(m, latent_embed) ==
    IF m.gno_batched
    THEN Permute(latent_embed, <<0>> \o m.reverse_order \o <<1>>)
    ELSE Permute(latent_embed, m.reverse_order \o <<0>>)

\* lines 350-358: f_y, the latent features as a list of rows
LatentRows(m, latent_embed) ==
    IF ~latent_embed.ok THEN Raised
    ELSE IF m.gno_batched
         THEN Reshape(LatentChannelsLast(m, latent_embed),
                      <<latent_embed.dims[1].size>>, m.args.fno_hidden_channels)
         ELSE Reshape(LatentChannelsLast(m, latent_embed), <<>>,
                      m.args.fno_hidden_channels)

\* lines 321-323 and 361-366: the search takes points of one dimension, the
\* kernel network the width it was built for, and f_y a row for every point
\* of y; the result has a row per query and the batch axis of f_y
KernelIntegral(m, in_p, out_p, f_y) ==
    IF ~in_p.ok \/ ~out_p.ok \/ ~f_y.ok THEN Raised
    ELSE LET n_in  == NumEl(in_p) \div in_p.dims[NDim(in_p)].size
             width == 2 * m.gno_coord_dim_embed
                        + (IF m.transform_type \in {"nonlinear", "nonlinear_kernelonly"}
                           THEN m.args.fno_hidden_channels ELSE 0)
         IN IF \/ in_p.dims[NDim(in_p)].size # out_p.dims[2].size
               \/ width # m.kernel_layers[1]
               \/ f_y.dims[NDim(f_y) - 1].size < n_in
            THEN Raised
            ELSE Tensor(SubSeq(f_y.dims, 1, NDim(f_y) - 2)
                          \o <<out_p.dims[1],
                               Axis("c", 0, m.kernel_layers[Len(m.kernel_layers)])>>)

\* lines 367-380
Projected(m, out) ==
    LET batch_first == IF out.ok /\ NDim(out) = 2 THEN Unsqueeze0(out) ELSE out
        channels    == Permute(batch_first, <<0, 2, 1>>)
        projected   == Channels(channels, m.args.fno_hidden_channels, m.args.out_channels)
    IN IF m.gno_batched
       THEN Permute(projected, <<0, 2, 1>>)
       ELSE Permute(Squeeze0(projected), <<1, 0>>)

\* lines 314-380
IntegrateLatent(m, in_p, out_p, latent_embed) ==
    Projected(m, KernelIntegral(m, in_p, out_p, LatentRows(m, latent_embed)))

\* The statements of the two methods, by what each does to storage: the
\* name bound, the operation, and the name whose tensor it is applied to.
Stmt(target, op, on) == [ target |-> target, op |-> op, on |-> on ]

\* a view shares the storage of its operand; repeat, cat and the modules
\* (lifting, blocks, embeddings, search, kernel integral, projection) return
\* new storage and write none; an operation named with a trailing underscore
\* writes the storage of its operand
OpEffect(op) ==
    IF op \in {"permute", "view", "reshape", "unsqueeze", "squeeze", "index", "alias"}
    THEN "view"
    ELSE IF op \in {"repeat", "cat", "module"} THEN "new"
    ELSE "inplace"

\* lines 275-312
LatentEmbeddingBody(m) ==
    (IF m.gno_batched THEN <<Stmt("in_p", "repeat", "in_p")>> ELSE <<>>)
    \o <<Stmt("in_p", "cat", "in_p"), Stmt("in_p", "permute", "in_p")>>
    \o (IF m.gno_batched THEN <<>> ELSE <<Stmt("in_p", "unsqueeze", "in_p")>>)
    \o <<Stmt("in_p", "module", "in_p")>>
    \o (IF ~IsNone(m.args.fno_domain_padding)
        THEN <<Stmt("in_p", "module", "in_p")>> ELSE <<>>)
    \o <<Stmt("in_p", "module", "in_p")>>
    \o (IF ~IsNone(m.args.fno_domain_padding)
        THEN <<Stmt("in_p", "index", "in_p")>> ELSE <<>>)
    \o (IF m.gno_batched THEN <<>> ELSE <<Stmt("in_p", "squeeze", "in_p")>>)

\* mutant of IntegrateLatentBody: the geometry is flattened in place
IntegrateLatentBodyResizing(m) ==
    <<Stmt("y_rows", "resize_", "in_p"), Stmt("in_to_out_nb", "module", "y_rows")>>
    \o (IF ~IsNone(m.args.gno_coord_embed_dim)
        THEN <<Stmt("in_p_embed", "reshape", "in_p"),
               Stmt("in_p_embed", "module", "in_p_embed"),
               Stmt("in_p_embed", "reshape", "in_p_embed"),
               Stmt("out_p_embed", "reshape", "out_p"),
               Stmt("out_p_embed", "module", "out_p_embed"),
               Stmt("out_p_embed", "reshape", "out_p_embed")>>
        ELSE <<Stmt("in_p_embed", "reshape", "in_p"),
               Stmt("out_p_embed", "alias", "out_p")>>)
    \o <<Stmt("latent_embed", "permute", "latent_embed"),
         Stmt("latent_embed", "reshape", "latent_embed"),
         Stmt("out", "module", "in_p_embed"),
         Stmt("out", "unsqueeze", "out"), Stmt("out", "permute", "out"),
         Stmt("out", "module", "out"), Stmt("out", "squeeze", "out"),
         Stmt("out", "permute", "out")>>

\* lines 314-380
IntegrateLatentBody(m) ==
    <<Stmt("y_rows", "view", "in_p"), Stmt("in_to_out_nb", "module", "y_rows")>>
    \o (IF ~IsNone(m.args.gno_coord_embed_dim)
        THEN <<Stmt("in_p_embed", "reshape", "in_p"),
               Stmt("in_p_embed", "module", "in_p_embed"),
               Stmt("in_p_embed", "reshape", "in_p_embed"),
               Stmt("out_p_embed", "reshape", "out_p"),
               Stmt("out_p_embed", "module", "out_p_embed"),
               Stmt("out_p_embed", "reshape", "out_p_embed")>>
        ELSE <<Stmt("in_p_embed", "reshape", "in_p"),
               Stmt("out_p_embed", "alias", "out_p")>>)
    \o <<Stmt("latent_embed", "permute", "latent_embed"),
         Stmt("latent_embed", "reshape", "latent_embed"),
         Stmt("out", "module", "in_p_embed"),
         Stmt("out", "unsqueeze", "out"), Stmt("out", "permute", "out"),
         Stmt("out", "module", "out"), Stmt("out", "squeeze", "out"),
         Stmt("out", "permute", "out")>>

\* the names of a frame, bound to the storage of the caller's arguments
Frame ==
    [ name \in {"in_p", "out_p", "f", "latent_embed", "y_rows", "in_to_out_nb",
                "in_p_embed", "out_p_embed", "out"} |->
        IF name \in {"in_p", "out_p", "f"} THEN name ELSE "new" ]

\* the storages the statements write, run in order from the bindings env
RECURSIVE Written(_, _)
Written(body, env) ==
    IF body = <<>> THEN {}
    ELSE LET st     == Head(body)
             effect == OpEffect(st.op)
             store  == IF effect = "new" THEN "new" ELSE env[st.on]
         IN (IF effect = "inplace" THEN {env[st.on]} ELSE {})
              \cup Written(Tail(body), [ env EXCEPT ![st.target] = store ])

\* lines 382-388: what forward has written of its caller's tensors
ForwardWrites(m) ==
    Written(LatentEmbeddingBody(m), Frame) \cup Written(IntegrateLatentBody(m), Frame)

\* a tensor of the caller after the call
Clobbered == [ ok |-> TRUE, dims |-> <<>> ]

AfterCall(writes, name, t) == IF name \in writes THEN Clobbered ELSE t

\* lines 382-388.  An exception of lines 276-286 leaves latent_embedding
\* before the embedding of ada_in is set.
Forward(in_shape, f_batch, n_out, ada_in) ==
    /\ fnogno.constructed
    /\ LET in_p   == InP(in_shape)
           out_p  == OutP(fnogno, n_out)
           f      == FOf(fnogno, in_shape, f_batch)
           latent == LatentEmbedding(fnogno, in_p, f)
           writes == ForwardWrites(fnogno)
       IN /\ ada_in_embed' = IF LatentInput(fnogno, in_p, f).ok
                             THEN EmbedAfter(fnogno, ada_in_embed, ada_in)
                             ELSE ada_in_embed
          /\ last_call' =
               [ made |-> TRUE, ada_in |-> ada_in,
                 held_before |-> ada_in_embed,
                 result |-> ForwardResult(fnogno, ada_in_embed, ada_in),
                 in_shape |-> in_shape, f_batch |-> f_batch, n_out |-> n_out,
                 in_p |-> in_p, out_p |-> out_p,
                 latent |-> latent,
                 out |-> IntegrateLatent(fnogno, in_p, out_p, latent),
                 in_p_after |-> AfterCall(writes, "in_p", in_p),
                 out_p_after |-> AfterCall(writes, "out_p", out_p) ]
    /\ UNCHANGED <<fnogno, default_layers, n_constructed>>

----------------------------------------------------------------------------
(* NeighborSearch.  A point is a tuple of integer coordinates >= 0 and a   *)
(* radius is a positive integer; indices are 0-based as in the tensors.    *)
(* The result is the CSR graph: neighbors_index, the data indices grouped  *)
(* by query, and neighbors_row_splits, the offsets of the groups.          *)

RECURSIVE SumSq(_, _, _)
SumSq(p, q, k) ==
    IF k = 0 THEN 0 ELSE (p[k] - q[k]) * (p[k] - q[k]) + SumSq(p, q, k - 1)

\* the squared Euclidean distance
SqDist(p, q) == SumSq(p, q, Len(p))

\* radius semantics: the boundary is inside
WithinRadius(p, q, r) == SqDist(p, q) <= r * r

\* the data indices (0-based, ascending) of the positions j..n that are kept
RECURSIVE SelectFrom(_, _, _)
SelectFrom(n, j, kept) ==
    IF j > n THEN <<>>
    ELSE (IF j \in kept THEN <<j - 1>> ELSE <<>>) \o SelectFrom(n, j + 1, kept)

\* brute force: every pair of a query and a data point is measured
NativeRow(Y, x, r) ==
    SelectFrom(Len(Y), 1, { j \in 1..Len(Y) : WithinRadius(x, Y[j], r) })

\* the indexed strategy: the data points are hashed into a grid of cells of
\* side r; a query measures only the points of its cell and the cells around
Cell(p, r) == [ k \in 1..Len(p) |-> p[k] \div r ]

Buckets(Y, r) ==
    [ c \in { Cell(Y[j], r) : j \in 1..Len(Y) } |->
        { j \in 1..Len(Y) : Cell(Y[j], r) = c } ]

AroundCell(c, d) == \A k \in 1..Len(c) : d[k] - c[k] \in {-1, 0, 1}

\* mutant of Candidates: only the query's own cell is looked up
CandidatesOwnCell(Y, x, r) ==
    LET table == Buckets(Y, r)
    IN UNION { table[d] : d \in { e \in DOMAIN table : e = Cell(x, r) } }

Candidates(Y, x, r) ==
    LET table == Buckets(Y, r)
    IN UNION { table[d] : d \in { e \in DOMAIN table : AroundCell(Cell(x, r), e) } }

Open3DRow(Y, x, r) ==
    SelectFrom(Len(Y), 1, { j \in Candidates(Y, x, r) : WithinRadius(x, Y[j], r) })

RECURSIVE Flatten(_)
Flatten(rows) ==
    IF rows = <<>> THEN <<>> ELSE Head(rows) \o Flatten(Tail(rows))

\* the offsets: 0, then the running count of edges
RECURSIVE Offsets(_, _)
Offsets(rows, upto) ==
    IF rows = <<>> THEN <<upto>>
    ELSE <<upto>> \o Offsets(Tail(rows), upto + Len(Head(rows)))

CSR(rows) ==
    [ neighbors_index      |-> Flatten(rows),
      neighbors_row_splits |-> Offsets(rows, 0) ]

NeighborSearch(use_open3d, Y, X, r) ==
    CSR([ i \in 1..Len(X) |->
            IF use_open3d THEN Open3DRow(Y, X[i], r) ELSE NativeRow(Y, X[i], r) ])

\* element i of a tensor, 0-based
At0(t, i) == t[i + 1]

\* the edge rows of query i: rows splits[i] .. splits[i+1]-1, 0-based
BlockOf(splits, i) == { e \in 0..(At0(splits, Len(splits) - 1) - 1) :
                          At0(splits, i) <= e /\ e < At0(splits, i + 1) }

\* the relation a CSR graph stands for: pairs (query, data), 0-based
EdgesOf(g) ==
    UNION { { <<i, At0(g.neighbors_index, e)>> :
                e \in BlockOf(g.neighbors_row_splits, i) } :
            i \in 0..(Len(g.neighbors_row_splits) - 2) }

----------------------------------------------------------------------------
(* GNOBlock.__init__ *)

\* radius: a float of the caller's choice
GNORadii == {2}

\* a ChannelMLP a caller supplies: its in_channels and out_channels
ChannelMLPs ==
    {None} \cup { Some([ in_channels |-> i, out_channels |-> o ]) :
                    i \in {4, 6, 8}, o \in {3, 5} }

\* channel_mlp_layers: None and [] are both false in `if channel_mlp_layers`
LayerLists == { <<>>, <<16>>, <<6, 16>>, <<4, 16, 3>>, <<8, 16, 3>>, <<16, 3>> }

GNOArgs ==
    [ in_channels        : {2},
      out_channels       : {3},
      coord_dim          : CoordDims,
      radius             : GNORadii,
      channel_mlp        : ChannelMLPs,
      channel_mlp_layers : LayerLists,
      transform_type     : TransformTypes,
      use_open3d_neighbor_search : BOOLEAN ]

\* lines 104-108
GNOKernelInDim(a) ==
    a.coord_dim * 2
      + (IF a.transform_type = "nonlinear" \/ a.transform_type = "nonlinear_kernelonly"
         THEN a.in_channels ELSE 0)

\* mutant of WithInputWidth: the list is taken as given
WithInputWidthAsGiven(a) == a.channel_mlp_layers

\* lines 117-118: a new list is bound when the input width is prepended
WithInputWidth(a) ==
    IF a.channel_mlp_layers[1] # GNOKernelInDim(a)
    THEN <<GNOKernelInDim(a)>> \o a.channel_mlp_layers
    ELSE a.channel_mlp_layers

\* lines 119-120: append acts on the list bound at that point
GNOBuiltLayers(a) ==
    LET l == WithInputWidth(a)
    IN IF l[Len(l)] # a.out_channels THEN Append(l, a.out_channels) ELSE l

\* the caller's list object once the constructor has returned
CallerListAfter(a) ==
    IF a.channel_mlp_layers[1] # GNOKernelInDim(a)
    THEN a.channel_mlp_layers
    ELSE GNOBuiltLayers(a)

\* line 121: LinearChannelMLP(layers=...), by its widths
LinearChannelMLP(layers) ==
    [ in_channels |-> layers[1], out_channels |-> layers[Len(layers)],
      layers |-> layers ]

\* lines 96-98, 109-114 and 125: the exception __init__ ends with, or "none"
GNOInitError(a) ==
    IF a.use_open3d_neighbor_search /\ a.coord_dim # 3 THEN "AssertionError"
    ELSE IF ~IsNone(a.channel_mlp)
            /\ Get(a.channel_mlp).in_channels # GNOKernelInDim(a) THEN "AssertionError"
    ELSE IF ~IsNone(a.channel_mlp)
            /\ Get(a.channel_mlp).out_channels # a.out_channels THEN "AssertionError"
    ELSE IF IsNone(a.channel_mlp) /\ a.channel_mlp_layers = <<>> THEN "AttributeError"
    ELSE "none"

\* lines 115, 121: the kernel network the block holds
GNOChannelMLP(a) ==
    IF a.channel_mlp_layers # <<>>
    THEN LinearChannelMLP(GNOBuiltLayers(a))
    ELSE [ in_channels  |-> Get(a.channel_mlp).in_channels,
           out_channels |-> Get(a.channel_mlp).out_channels,
           layers       |-> <<>> ]

NoBlock == [ constructed |-> FALSE, error |-> "none" ]

GNOBlockObject(a) ==
    [ constructed    |-> TRUE,
      error          |-> "none",
      args           |-> a,
      in_channels    |-> a.in_channels,
      out_channels   |-> a.out_channels,
      coord_dim      |-> a.coord_dim,
      radius         |-> a.radius,
      use_open3d     |-> a.use_open3d_neighbor_search,
      channel_mlp    |-> GNOChannelMLP(a),
      transform_type |-> a.transform_type,
      caller_layers_after |-> IF a.channel_mlp_layers = <<>> THEN <<>>
                              ELSE CallerListAfter(a) ]

NoGNOCall == [ made |-> FALSE ]

\* As for FNOGNO: a construction reads nothing of the calls on the block it
\* replaces, and is taken before them.
GNOConstruct(a) ==
    /\ ~gno_call.made
    /\ gno' = IF GNOInitError(a) = "none" THEN GNOBlockObject(a)
              ELSE [ constructed |-> FALSE, error |-> GNOInitError(a) ]
    /\ gno_call' = NoGNOCall

----------------------------------------------------------------------------
(* IntegralTransform: the kernel integral over a neighbour graph.  The     *)
(* result is kept as the terms of each query's sum: which neighbour, what  *)
(* the kernel is applied to, whether the term is multiplied by f(y), and   *)
(* the quadrature weight of the term.                                      *)

IsNonlinear(type) == type = "nonlinear" \/ type = "nonlinear_kernelonly"

\* without f_y the kernel-only transform (a) is computed
EffectiveType(type, f_y) == IF IsNone(f_y) THEN "linear_kernelonly" ELSE type

\* what is concatenated for the kernel: x, y and, for the nonlinear types, f(y)
KernelOperands(type, f_y) ==
    IF IsNonlinear(EffectiveType(type, f_y)) THEN <<"x", "y", "f_y">> ELSE <<"x", "y">>

KernelInputWidth(type, Y, X, f_y) ==
    Len(X[1]) + Len(Y[1])
      + (IF IsNonlinear(EffectiveType(type, f_y)) THEN Get(f_y).width ELSE 0)

TimesF(type, f_y) == EffectiveType(type, f_y) \in {"linear", "nonlinear"}

\* w(y): the weight given for data point j, else 1/|N(x)|
QuadratureWeight(weights, j, count) ==
    IF IsNone(weights) THEN <<"uniform", count>> ELSE <<"given", Get(weights), j>>

TermsOf(type, g, i, f_y, weights) ==
    { [ neighbor |-> At0(g.neighbors_index, e),
        kernel   |-> KernelOperands(type, f_y),
        times_f  |-> TimesF(type, f_y),
        weight   |-> QuadratureWeight(weights, At0(g.neighbors_index, e),
                                      Cardinality(BlockOf(g.neighbors_row_splits, i))) ] :
      e \in BlockOf(g.neighbors_row_splits, i) }

\* the kernel network is applied to the concatenation: a width it was not
\* built for is a shape error of the call
IntegralTransform(channel_mlp, type, Y, X, g, f_y, weights) ==
    IF KernelInputWidth(type, Y, X, f_y) # channel_mlp.in_channels
    THEN [ status |-> "RuntimeError", out |-> <<>> ]
    ELSE [ status |-> "ok",
           out    |-> [ i \in 1..Len(X) |-> TermsOf(type, g, i - 1, f_y, weights) ] ]

----------------------------------------------------------------------------
(* GNOBlock.forward *)

\* the point (n, ..., n) of dimension d
Diag(n, d) == [ k \in 1..d |-> n ]

\* y: the points integrated over; x: the query points, by their diagonal
\* coordinate (a query far from every y has an empty neighbourhood)
DataScenes == { <<0, 1>>, <<0, 1, 2>> }

QueryScenes == { <<0>>, <<0, 2>>, <<1, 5>> }

PointsOf(scene, d) == [ i \in 1..Len(scene) |-> Diag(scene[i], d) ]

\* f_y: None, or a function on y of in_channels values per point
FeatureArg(m, given) ==
    IF given THEN Some([ id |-> 1, width |-> m.in_channels ]) ELSE None

\* weights: None, or one of two weight vectors over y
WeightArgs == { None, Some(1), Some(2) }

\* lines 163-169: weights is not among the arguments of the transform
GNOForwardResult(m, Y, X, f_y, weights) ==
    LET neighbors_dict == NeighborSearch(m.use_open3d, Y, X, m.radius)
    IN IntegralTransform(m.channel_mlp, m.transform_type, Y, X, neighbors_dict,
                         f_y, None)

GNOForward(ys, xs, f_given, weights) ==
    /\ gno.constructed
    /\ LET Y == PointsOf(ys, gno.coord_dim)
           X == PointsOf(xs, gno.coord_dim)
           f_y == FeatureArg(gno, f_given)
       IN gno_call' = [ made |-> TRUE, y |-> Y, x |-> X, f_y |-> f_y,
                        weights |-> weights,
                        neighbors |-> NeighborSearch(gno.use_open3d, Y, X, gno.radius),
                        result |-> GNOForwardResult(gno, Y, X, f_y, weights) ]
    /\ UNCHANGED gno

----------------------------------------------------------------------------
(* segment_csr and its test *)

RECURSIVE CumSum(_, _)
CumSum(xs, upto) ==
    IF xs = <<>> THEN <<>>
    ELSE <<upto + Head(xs)>> \o CumSum(Tail(xs), upto + Head(xs))

\* torch.randint(0, 10, (20,))
Draws == [ 1..NumDraws -> 0..(DrawBelow - 1) ]

\* line 6: splits = torch.cumsum(torch.randint(0,10,(20,)), 0)
TestSplits(draws) == CumSum(draws, 0)

\* line 7: data has splits[-1] rows
TestRows(draws) == TestSplits(draws)[NumDraws]

NoSegTest == [ drawn |-> FALSE ]

NoSegCall == [ made |-> FALSE ]

TestDraw(draws) ==
    /\ ~seg_test.drawn
    /\ seg_test' = [ drawn |-> TRUE, splits |-> TestSplits(draws),
                     rows |-> TestRows(draws) ]
    /\ UNCHANGED <<seg_call, csr_call>>

\* mutant of SegmentCsr: the row at the end boundary is reduced as well
SegmentCsrInclusive(rows, indptr, reduce) ==
    [ i \in 1..(Len(indptr) - 1) |->
        { e \in 0..(rows - 1) : At0(indptr, i - 1) <= e /\ e <= At0(indptr, i) } ]

\* segment_csr(src, indptr, reduce): output row i reduces the rows
\* indptr[i] .. indptr[i+1]-1 of src; a row of the result is kept as the set
\* of src rows it reduces
SegmentCsr(rows, indptr, reduce) ==
    [ i \in 1..(Len(indptr) - 1) |->
        { e \in 0..(rows - 1) : At0(indptr, i - 1) <= e /\ e < At0(indptr, i) } ]

\* reverse mode: d(sum of all outputs)/d(src row e), 0-based e. Every output
\* row that reduces row e passes its gradient 1 on to it, with the coefficient
\* of the reduction: 1 for 'sum'
SegmentCsrGrad(rows, indptr, reduce) ==
    [ e \in 1..rows |->
        Cardinality({ i \in 1..(Len(indptr) - 1) :
                        (e - 1) \in SegmentCsr(rows, indptr, reduce)[i] }) ]

\* lines 8-11: out = segment_csr(...), loss = out.sum(), loss.backward()
TestCall ==
    /\ seg_test.drawn
    /\ ~seg_call.made
    /\ seg_call' = [ made |-> TRUE, rows |-> seg_test.rows,
                     indptr |-> seg_test.splits, reduce |-> "sum",
                     out |-> SegmentCsr(seg_test.rows, seg_test.splits, "sum"),
                     grad |-> SegmentCsrGrad(seg_test.rows, seg_test.splits, "sum") ]
    /\ UNCHANGED <<seg_test, csr_call>>

\* the values reduced: a row is one number (the columns of a row are reduced
\* alike), and a result is the fraction num/den
RECURSIVE SumOfRows(_, _)
SumOfRows(values, es) ==
    IF es = {} THEN 0
    ELSE LET e == CHOOSE d \in es : TRUE
         IN At0(values, e) + SumOfRows(values, es \ {e})

\* mutant of SegmentMean: the sum is divided by the count, whatever the count
SegmentMeanDividing(values, es) ==
    [ num |-> SumOfRows(values, es), den |-> Cardinality(es) ]

\* the mean of an empty range is zero
SegmentMean(values, es) ==
    IF es = {} THEN [ num |-> 0, den |-> 1 ]
    ELSE [ num |-> SumOfRows(values, es), den |-> Cardinality(es) ]

SegmentSum(values, es) == [ num |-> SumOfRows(values, es), den |-> 1 ]

\* segment_csr(src, indptr, reduce), by values
SegmentReduce(values, indptr, reduce) ==
    LET segs == SegmentCsr(Len(values), indptr, reduce)
    IN [ i \in 1..(Len(indptr) - 1) |->
           IF reduce = "mean" THEN SegmentMean(values, segs[i])
           ELSE SegmentSum(values, segs[i]) ]

\* the arguments of a call: values, and boundaries that do not decrease and
\* lie within the rows
CsrValues == UNION { [ 1..n -> 0..MaxValue ] : n \in 0..MaxRows }

CsrBoundaries(n) ==
    UNION { { b \in [ 1..(k + 1) -> 0..n ] : \A j \in 1..k : b[j] <= b[j + 1] } :
            k \in 1..MaxSegs }

CsrInputs ==
    UNION { [ made : {FALSE}, values : {v}, indptr : CsrBoundaries(Len(v)) ] :
            v \in CsrValues }

SegmentCsrCall(reduce) ==
    /\ csr_call # [ made |-> FALSE ]
    /\ ~csr_call.made
    /\ csr_call' = [ made |-> TRUE, values |-> csr_call.values,
                     indptr |-> csr_call.indptr, reduce |-> reduce,
                     out |-> SegmentReduce(csr_call.values, csr_call.indptr, reduce) ]
    /\ UNCHANGED <<seg_test, seg_call>>

----------------------------------------------------------------------------
(* The incremental spectral convolution and its training.  The weight     *)
(* tensor has one entry per mode index (i, j), 0 <= i < n_modes[1],        *)
(* 0 <= j < n_modes[2]; the entries of all channels of a mode behave       *)
(* alike and are one entry here.                                           *)

Min(a, b) == IF a <= b THEN a ELSE b

Sign(x) == IF x > 0 THEN 1 ELSE IF x < 0 THEN -1 ELSE 0

ModeIdx(n) == (0..(n[1] - 1)) \X (0..(n[2] - 1))

\* the entries a forward pass with current mode counts c slices out
ActiveIdx(idx, c) == idx[1] < c[1] /\ idx[2] < c[2]

\* mutant of IncreasedModes: the sum is not clamped at the maximum
IncreasedModesUnclamped(c, n, step) == [ d \in 1..2 |-> c[d] + step ]

\* the "increase modes" operation: grow every dimension by step, clamped
IncreasedModes(c, n, step) == [ d \in 1..2 |-> Min(c[d] + step, n[d]) ]

IncreaseModes(step) ==
    /\ n_modes # <<>>
    /\ incremental_n_modes' = IncreasedModes(incremental_n_modes, n_modes, step)
    /\ UNCHANGED <<n_modes, starting_modes, weight, weight_grad>>

\* the sign of the loss gradient of an entry the forward pass read
Batches == {1, 2}

LossGrad(batch, idx) == IF batch = 1 THEN 1 ELSE -1

\* backward: the gradient of the whole weight tensor
Backward(batch, n, c) ==
    [ idx \in ModeIdx(n) |-> IF ActiveIdx(idx, c) THEN LossGrad(batch, idx) ELSE 0 ]

\* torch.optim.Adam(..., weight_decay=1e-4): weight_decay * w is added to the
\* gradient of every entry of a parameter that has a gradient; 1/weight_decay
InvWeightDecay == 10000

EffectiveGrad(g, w) == InvWeightDecay * g + w

\* mutant of AdamStep: the update is added, not subtracted
AdamStepAscending(w, g) == w + Sign(EffectiveGrad(g, w))

\* the step moves an entry one unit against the sign of its effective gradient
AdamStep(w, g) == w - Sign(EffectiveGrad(g, w))

TrainStep(batch) ==
    /\ n_modes # <<>>
    /\ LET grad == Backward(batch, n_modes, incremental_n_modes)
           stepped == [ idx \in ModeIdx(n_modes) |-> AdamStep(weight[idx], grad[idx]) ]
       IN /\ \A idx \in ModeIdx(n_modes) :
                 stepped[idx] \in (0 - MaxWeight)..MaxWeight
          /\ weight_grad' = grad
          /\ weight' = stepped
    /\ UNCHANGED <<n_modes, starting_modes, incremental_n_modes>>

----------------------------------------------------------------------------
(* scripts/train_car_cfd.py: the script from the configuration on.  The    *)
(* configuration is what pipe.read_conf() returned; a step of the script   *)
(* is an action, and an exception ends the script.                         *)

\* config.opt.scheduler, config.opt.training_loss, config.opt.testing_loss:
\* the strings the script knows and one it does not know
Schedulers == {"ReduceLROnPlateau", "CosineAnnealingLR", "StepLR", "OneCycleLR"}

TrainingLosses == {"l2", "weightedl2", "weightedl2drag", "h1"}

TestingLosses == {"l2", "weightedl2", "weightedl2drag"}

Configs ==
    [ sdf_query_resolution : 1..MaxRes,
      fno_n_modes          : [ 1..3 -> 1..(MaxRes + 1) ],
      scheduler            : Schedulers,
      training_loss        : TrainingLosses,
      testing_loss         : TestingLosses ]

NoConfig == [ read |-> FALSE ]

ScriptStart ==
    [ pc |-> "clamp", raised |-> "none", query_res |-> None, model_n_modes |-> None,
      scheduler |-> None, training_loss |-> None, testing_loss |-> None,
      trainer |-> FALSE, trained |-> FALSE ]

NoScript == [ pc |-> "off" ]

\* lines 31-32: the test reads entry 0 of fno_n_modes
ClampedModes(c) ==
    IF c.sdf_query_resolution < c.fno_n_modes[1]
    THEN [ d \in 1..3 |-> c.sdf_query_resolution ]
    ELSE c.fno_n_modes

ClampModes ==
    /\ script.pc = "clamp"
    /\ config' = [ config EXCEPT !.fno_n_modes = ClampedModes(config) ]
    /\ script' = [ script EXCEPT !.pc = "data" ]

\* lines 62-72: MeshDataModule(query_res=[sdf_query_resolution]*3) and its loaders
LoadData ==
    /\ script.pc = "data"
    /\ script' = [ script EXCEPT
                     !.query_res = Some([ d \in 1..3 |-> config.sdf_query_resolution ]),
                     !.pc = "model" ]
    /\ UNCHANGED config

\* lines 74-80: get_model(config) builds the model from config.fnogno
GetModel ==
    /\ script.pc = "model"
    /\ script' = [ script EXCEPT !.model_n_modes = Some(config.fno_n_modes),
                                 !.pc = "scheduler" ]
    /\ UNCHANGED config

\* lines 82-91
SchedulerKnown(name) == name \in {"ReduceLROnPlateau", "CosineAnnealingLR", "StepLR"}

SelectScheduler ==
    /\ script.pc = "scheduler"
    /\ script' = IF SchedulerKnown(config.scheduler)
                 THEN [ script EXCEPT !.scheduler = Some(config.scheduler),
                                      !.pc = "training_loss" ]
                 ELSE [ script EXCEPT !.raised = "ValueError", !.pc = "raised" ]
    /\ UNCHANGED config

\* lines 94-104
TrainingLossKnown(name) == name = "l2" \/ name = "weightedl2" \/ name = "weightedl2drag"

SelectTrainingLoss ==
    /\ script.pc = "training_loss"
    /\ script' = IF TrainingLossKnown(config.training_loss)
                 THEN [ script EXCEPT !.training_loss = Some(config.training_loss),
                                      !.pc = "testing_loss" ]
                 ELSE [ script EXCEPT !.raised = "ValueError", !.pc = "raised" ]
    /\ UNCHANGED config

\* mutant of TestingLossKnown: the test of the training loss is reused
TestingLossKnownAsTraining(name) == TrainingLossKnown(name)

\* lines 109-114
TestingLossKnown(name) == name = "l2" \/ name = "weightedl2"

SelectTestingLoss ==
    /\ script.pc = "testing_loss"
    /\ script' = IF TestingLossKnown(config.testing_loss)
                 THEN [ script EXCEPT !.testing_loss = Some(config.testing_loss),
                                      !.pc = "trainer" ]
                 ELSE [ script EXCEPT !.raised = "ValueError", !.pc = "raised" ]
    /\ UNCHANGED config

\* lines 181-189: CFDDataProcessor and Trainer are constructed
MakeTrainer ==
    /\ script.pc = "trainer"
    /\ script' = [ script EXCEPT !.trainer = TRUE, !.pc = "train" ]
    /\ UNCHANGED config

\* lines 194-202
Train ==
    /\ script.pc = "train"
    /\ script' = [ script EXCEPT !.trained = TRUE, !.pc = "done" ]
    /\ UNCHANGED config

----------------------------------------------------------------------------
(* LpLoss(d=2, p=2).abs(x, y, h=1.) as test_lploss uses it.  x and y have  *)
(* the shape (batch, 1, H, W); a sample is kept by its H x W entries.  A   *)
(* norm is the square root of an integer: k * sqrt(s) with s square-free;  *)
(* a sum of norms is kept exactly, as the coefficient of sqrt(s) for every *)
(* square-free s, over a common divisor.                                   *)

\* the H x W positions of a sample
LpGrid == (1..1) \X (1..2)

LpSamples == [ LpGrid -> 0..MaxEntry ]

\* x and y of one call, two batches of the same size: as in the test, y is x
\* itself or a batch filled with one value
LpInputs ==
    UNION { UNION { { [ x |-> x, y |-> y ] :
                        y \in {x} \cup { [ i \in 1..b |-> [ p \in LpGrid |-> v ] ] :
                                            v \in 0..MaxEntry } } :
                    x \in [ 1..b -> LpSamples ] } : b \in 1..MaxBatch }

RECURSIVE SumOver(_, _)
SumOver(f, S) ==
    IF S = {} THEN 0
    ELSE LET p == CHOOSE q \in S : TRUE IN f[p] + SumOver(f, S \ {p})

\* the largest k with k*k dividing r, and the square-free rest: r = k*k*s
SquarePart(r) ==
    IF r = 0 THEN 0
    ELSE CHOOSE k \in 1..r : r % (k * k) = 0 /\ \A j \in (k + 1)..r : r % (j * j) # 0

FreePart(r) == IF r = 0 THEN 1 ELSE r \div (SquarePart(r) * SquarePart(r))

\* the largest sum of squared differences of a sample
MaxRadicand == Cardinality(LpGrid) * MaxEntry * MaxEntry

Radicals == { FreePart(r) : r \in 0..MaxRadicand }

\* sqrt(r), as the coefficients of the square roots of the square-free numbers
SqrtOf(r) == [ s \in Radicals |-> IF s = FreePart(r) THEN SquarePart(r) ELSE 0 ]

\* torch.norm(flatten(x) - flatten(y), p=2, dim=-1), squared, for sample i
SampleSqNorm(x, y, i) ==
    SumOver([ p \in LpGrid |-> (x[i][p] - y[i][p]) * (x[i][p] - y[i][p]) ], LpGrid)

RECURSIVE SumOfNorms(_, _, _)
SumOfNorms(x, y, i) ==
    IF i = 0 THEN [ s \in Radicals |-> 0 ]
    ELSE [ s \in Radicals |->
             SqrtOf(SampleSqNorm(x, y, i))[s] + SumOfNorms(x, y, i - 1)[s] ]

\* mutant of ReduceDivisor: the mean is taken over every entry of the batch
ReduceDivisorOverEntries(reduction, batch) ==
    IF reduction = "mean" THEN batch * Cardinality(LpGrid) ELSE 1

\* reduction over the batch axis: 'sum' adds the norms, 'mean' averages them
ReduceDivisor(reduction, batch) == IF reduction = "mean" THEN batch ELSE 1

\* LpLoss.abs with h = 1. (the constant prod(h)^(1/p) is 1)
LpAbs(x, y, reduction) ==
    [ coef |-> SumOfNorms(x, y, Len(x)), over |-> ReduceDivisor(reduction, Len(x)) ]

LpNotCalled == [ mean |-> None, sum |-> None ]

Abs(reduction) ==
    /\ lp_in # <<>>
    /\ lp_out' = [ lp_out EXCEPT ![reduction] = Some(LpAbs(lp_in.x, lp_in.y, reduction)) ]
    /\ UNCHANGED lp_in

----------------------------------------------------------------------------
(* NeighborSearch on its own: the point sets and radius of one search. *)

Points3 == { <<a, b, c>> : a \in 0..MaxCoord, b \in 0..MaxCoord, c \in 0..MaxCoord }

\* data: any point and a point of the diagonal; queries: any point and the origin
SearchInputs ==
    { [ data |-> <<p, Diag(k, 3)>>, queries |-> <<q, Diag(0, 3)>>, radius |-> r ] :
        p \in Points3, k \in 0..MaxCoord, q \in Points3, r \in 1..MaxRadius }

NoFound == [ native |-> None, open3d |-> None ]

Search(use_open3d) ==
    /\ LET g == NeighborSearch(use_open3d, points.data, points.queries, points.radius)
       IN found' = IF use_open3d THEN [ found EXCEPT !.open3d = Some(g) ]
                   ELSE [ found EXCEPT !.native = Some(g) ]
    /\ UNCHANGED points

----------------------------------------------------------------------------
(* The specifications. *)

IdleFNOGNO ==
    /\ fnogno = NoModel
    /\ ada_in_embed = NoEmbed
    /\ default_layers = DefaultLayers
    /\ n_constructed = 0
    /\ last_call = NoCall

IdleGNO == gno = NoBlock /\ gno_call = NoGNOCall

IdleNbr == points = <<>> /\ found = NoFound

IdleSeg == seg_test = NoSegTest /\ seg_call = NoSegCall

IdleReduce == csr_call = [ made |-> FALSE ]

IdleScript == config = NoConfig /\ script = NoScript

IdleLoss == lp_in = <<>> /\ lp_out = <<>>

IdleFNO ==
    /\ n_modes = <<>>
    /\ starting_modes = <<>>
    /\ incremental_n_modes = <<>>
    /\ weight = <<>>
    /\ weight_grad = <<>>

IdleOthers == IdleReduce /\ IdleScript /\ IdleLoss

\* SpecFNOGNO follows the calls by their ada_in: the tensors of a call are
\* one grid of the rank of the model, with a batch of one if it is batched
GridOfModel == [ j \in 1..fnogno.in_coord_dim |-> MaxSide ]

BatchOfModel == IF fnogno.gno_batched THEN Some(1) ELSE None

InitFNOGNO == IdleFNOGNO /\ IdleGNO /\ IdleNbr /\ IdleSeg /\ IdleFNO /\ IdleOthers

NextFNOGNO ==
    \/ \E a \in FNOGNOArgs :
          Construct(a) /\ UNCHANGED <<gno_vars, nbr_vars, seg_vars, fno_vars, script_vars, loss_vars>>
    \/ \E ada_in \in AdaIns :
          /\ fnogno.constructed
          /\ Forward(GridOfModel, BatchOfModel, 3, ada_in)
          /\ UNCHANGED <<gno_vars, nbr_vars, seg_vars, fno_vars, script_vars, loss_vars>>

SpecFNOGNO == InitFNOGNO /\ [][NextFNOGNO]_vars

InitGNO == IdleFNOGNO /\ IdleGNO /\ IdleNbr /\ IdleSeg /\ IdleFNO /\ IdleOthers

NextGNO ==
    \/ \E a \in GNOArgs :
          GNOConstruct(a) /\ UNCHANGED <<fnogno_vars, nbr_vars, seg_vars, fno_vars, script_vars, loss_vars>>
    \/ \E ys \in DataScenes, xs \in QueryScenes, f_given \in BOOLEAN, w \in WeightArgs :
          GNOForward(ys, xs, f_given, w)
            /\ UNCHANGED <<fnogno_vars, nbr_vars, seg_vars, fno_vars, script_vars, loss_vars>>

SpecGNO == InitGNO /\ [][NextGNO]_vars

InitNbr ==
    /\ IdleFNOGNO /\ IdleGNO /\ IdleSeg /\ IdleFNO /\ IdleOthers
    /\ points \in SearchInputs
    /\ found = NoFound

NextNbr ==
    \E use_open3d \in BOOLEAN :
       Search(use_open3d) /\ UNCHANGED <<fnogno_vars, gno_vars, seg_vars, fno_vars, script_vars, loss_vars>>

SpecNbr == InitNbr /\ [][NextNbr]_vars

InitSeg == IdleFNOGNO /\ IdleGNO /\ IdleNbr /\ IdleSeg /\ IdleFNO /\ IdleOthers

NextSeg ==
    \/ \E draws \in Draws :
          TestDraw(draws) /\ UNCHANGED <<fnogno_vars, gno_vars, nbr_vars, fno_vars, script_vars, loss_vars>>
    \/ TestCall /\ UNCHANGED <<fnogno_vars, gno_vars, nbr_vars, fno_vars, script_vars, loss_vars>>

SpecSeg == InitSeg /\ [][NextSeg]_vars

\* FNO(n_modes=..., incremental_n_modes=starting_modes): the weight tensor has
\* the maximum size; its entries start at a random value, here one of two
ModeCounts == { <<a, b>> : a \in 1..MaxModes, b \in 1..MaxModes }

InitFNO ==
    /\ IdleFNOGNO /\ IdleGNO /\ IdleNbr /\ IdleSeg /\ IdleOthers
    /\ n_modes \in ModeCounts
    /\ starting_modes \in
         { c \in ModeCounts : c[1] <= n_modes[1] /\ c[2] <= n_modes[2] }
    /\ incremental_n_modes = starting_modes
    /\ \E w0 \in {-1, 1} : weight = [ idx \in ModeIdx(n_modes) |-> w0 ]
    /\ weight_grad = [ idx \in ModeIdx(n_modes) |-> 0 ]

NextFNO ==
    \/ \E step \in 1..MaxStep :
          IncreaseModes(step) /\ UNCHANGED <<fnogno_vars, gno_vars, nbr_vars, seg_vars,
                      script_vars, loss_vars>>
    \/ \E batch \in Batches :
          TrainStep(batch) /\ UNCHANGED <<fnogno_vars, gno_vars, nbr_vars, seg_vars,
                      script_vars, loss_vars>>

SpecFNO == InitFNO /\ [][NextFNO]_vars

InitScript ==
    /\ IdleFNOGNO /\ IdleGNO /\ IdleNbr /\ IdleSeg /\ IdleFNO
    /\ IdleReduce /\ IdleLoss
    /\ config \in Configs
    /\ script = ScriptStart

NextScript ==
    \/ ClampModes /\ UNCHANGED <<fnogno_vars, gno_vars, nbr_vars, seg_vars, fno_vars,
                                 loss_vars>>
    \/ LoadData /\ UNCHANGED <<fnogno_vars, gno_vars, nbr_vars, seg_vars, fno_vars,
                               loss_vars>>
    \/ GetModel /\ UNCHANGED <<fnogno_vars, gno_vars, nbr_vars, seg_vars, fno_vars,
                               loss_vars>>
    \/ SelectScheduler /\ UNCHANGED <<fnogno_vars, gno_vars, nbr_vars, seg_vars,
                                      fno_vars, loss_vars>>
    \/ SelectTrainingLoss /\ UNCHANGED <<fnogno_vars, gno_vars, nbr_vars, seg_vars,
                                         fno_vars, loss_vars>>
    \/ SelectTestingLoss /\ UNCHANGED <<fnogno_vars, gno_vars, nbr_vars, seg_vars,
                                        fno_vars, loss_vars>>
    \/ MakeTrainer /\ UNCHANGED <<fnogno_vars, gno_vars, nbr_vars, seg_vars, fno_vars,
                                  loss_vars>>
    \/ Train /\ UNCHANGED <<fnogno_vars, gno_vars, nbr_vars, seg_vars, fno_vars,
                            loss_vars>>

SpecScript == InitScript /\ [][NextScript]_vars

InitLoss ==
    /\ IdleFNOGNO /\ IdleGNO /\ IdleNbr /\ IdleSeg /\ IdleFNO
    /\ IdleReduce /\ IdleScript
    /\ lp_in \in LpInputs
    /\ lp_out = LpNotCalled

NextLoss ==
    \E reduction \in {"mean", "sum"} :
       Abs(reduction) /\ UNCHANGED <<fnogno_vars, gno_vars, nbr_vars, seg_vars, fno_vars,
                                     script_vars>>

SpecLoss == InitLoss /\ [][NextLoss]_vars

InitReduce ==
    /\ IdleFNOGNO /\ IdleGNO /\ IdleNbr /\ IdleSeg /\ IdleFNO
    /\ IdleScript /\ IdleLoss
    /\ csr_call \in CsrInputs

NextReduce ==
    \E reduce \in {"sum", "mean"} :
       SegmentCsrCall(reduce) /\ UNCHANGED <<fnogno_vars, gno_vars, nbr_vars, fno_vars,
                                             script_vars, loss_vars>>

SpecReduce == InitReduce /\ [][NextReduce]_vars

\* SpecLatent follows the calls by their tensors, without ada_in, on one
\* model: Init is the state its construction leaves
InitLatent ==
    /\ \E a \in LatentArgs : fnogno = FNOGNOObject(a, CallerLayers)
    /\ ada_in_embed = NoEmbed
    /\ default_layers = DefaultLayers
    /\ n_constructed = 1
    /\ last_call = NoCall
    /\ IdleGNO /\ IdleNbr /\ IdleSeg /\ IdleFNO /\ IdleOthers

NextLatent ==
    \E in_shape \in InShapes, f_batch \in FBatches, n_out \in QueryCounts :
       Forward(in_shape, f_batch, n_out, None)
         /\ UNCHANGED <<gno_vars, nbr_vars, seg_vars, fno_vars, script_vars, loss_vars>>

SpecLatent == InitLatent /\ [][NextLatent]_vars

----------------------------------------------------------------------------
(* The claims. *)

\* C1: the result of a forward call is determined by the arguments of the call
\* and the parameters alone: the last call returned what the same call returns
\* on the model as it was constructed, whatever calls ran before it.
ForwardIsPure ==
    last_call.made =>
        last_call.result = ForwardResult(fnogno, NoEmbed, last_call.ada_in)

\* C2: the current mode count of every dimension never decreases, never exceeds
\* n_modes, and stays at n_modes once it is there.
ModesMonotoneBounded ==
    [][ \A d \in 1..2 :
          /\ incremental_n_modes[d] <= n_modes[d]
          /\ incremental_n_modes[d] <= incremental_n_modes'[d]
          /\ incremental_n_modes'[d] <= n_modes'[d]
          /\ (incremental_n_modes[d] = n_modes[d]
                => incremental_n_modes'[d] = n_modes[d]) ]_vars

\* C2, witness: an increase has brought a dimension that started below the
\* maximum up to the maximum.
ModesReachedMaximum ==
    /\ n_modes # <<>>
    /\ starting_modes[1] < n_modes[1]
    /\ incremental_n_modes[1] = n_modes[1]
    /\ incremental_n_modes[2] < n_modes[2]

\* an entry with a mode index >= the current count in some dimension
Inactive(idx) == ~(idx[1] < incremental_n_modes[1] /\ idx[2] < incremental_n_modes[2])

Open3DNeeds3D ==
    /\ gno.constructed => ~(gno.use_open3d /\ gno.coord_dim # 3)
    /\ fnogno.constructed => ~(fnogno.use_open3d /\ fnogno.gno_coord_dim # 3)

\* the kernel input width the transform type asks for
ExpectedKernelWidth(coord_width, type, f_width) ==
    2 * coord_width
      + (IF type \in {"nonlinear", "nonlinear_kernelonly"} THEN f_width ELSE 0)

FNOGNOKernelWidthFollowsTransform ==
    fnogno.constructed =>
        fnogno.kernel_layers[1] =
            ExpectedKernelWidth(fnogno.gno_coord_dim_embed, fnogno.transform_type,
                                fnogno.args.fno_hidden_channels)

\* transform (a) on the points and graph of the last GNOBlock.forward call
KernelOnlyOnLastCall ==
    [ i \in 1..Len(gno_call.x) |->
        TermsOf("linear_kernelonly", gno_call.neighbors, i - 1, None, None) ]

\* C7: GNOBlock.forward(y, x) without f_y raises nothing and returns the
\* kernel-only transform (a), whatever transform type was configured.
OmittedFIsKernelOnly ==
    (gno_call.made /\ IsNone(gno_call.f_y)) =>
        /\ gno_call.result.status = "ok"
        /\ gno_call.result.out = KernelOnlyOnLastCall

\* C8: when weights is given to GNOBlock.forward, the term of each neighbour
\* y_j carries weights[j], not the uniform weight.
GivenWeightsAreUsed ==
    (gno_call.made /\ ~IsNone(gno_call.weights) /\ gno_call.result.status = "ok") =>
        \A i \in 1..Len(gno_call.x) : \A t \in gno_call.result.out[i] :
            t.weight = <<"given", Get(gno_call.weights), t.neighbor>>

\* the pairs (i, j), 0-based, with distance(X_i, Y_j) <= r
PairsWithin(Y, X, r) ==
    { <<i, j>> \in (0..(Len(X) - 1)) \X (0..(Len(Y) - 1)) :
        SqDist(At0(X, i), At0(Y, j)) <= r * r }

\* C9: each strategy returns exactly the pairs (i, j) with
\* distance(X_i, Y_j) <= r, so the two return the same edge set.
StrategiesAgree ==
    LET expected == PairsWithin(points.data, points.queries, points.radius)
    IN /\ ~IsNone(found.native) => EdgesOf(Get(found.native)) = expected
       /\ ~IsNone(found.open3d) => EdgesOf(Get(found.open3d)) = expected
       /\ (~IsNone(found.native) /\ ~IsNone(found.open3d))
             => EdgesOf(Get(found.native)) = EdgesOf(Get(found.open3d))

\* C9, witness: both strategies have searched, a pair at distance exactly r is
\* an edge, and a pair is farther apart than r.
BoundaryPairFound ==
    /\ ~IsNone(found.native) /\ ~IsNone(found.open3d)
    /\ \E e \in EdgesOf(Get(found.open3d)) :
          SqDist(At0(points.queries, e[1]), At0(points.data, e[2]))
            = points.radius * points.radius
    /\ \E i \in 1..Len(points.queries), j \in 1..Len(points.data) :
          SqDist(points.queries[i], points.data[j]) > points.radius * points.radius

\* offsets of `queries` blocks over `rows` edge rows
WellFormedOffsets(offsets, queries, rows) ==
    /\ Len(offsets) = queries + 1
    /\ \A k \in 1..(Len(offsets) - 1) : offsets[k] <= offsets[k + 1]
    /\ At0(offsets, 0) = 0
    /\ offsets[Len(offsets)] = rows
    /\ \A e \in 0..(rows - 1) : \E i \in 0..(queries - 1) : e \in BlockOf(offsets, i)

\* C10: the offsets handed to the segmented reduction, by GNOBlock.forward and
\* by the test, have length #queries + 1, do not decrease, start at 0 and end
\* at the number of edge rows, so that every edge row is in a block.
RowSplitsWellFormed ==
    /\ seg_call.made =>
          WellFormedOffsets(seg_call.indptr, Len(seg_call.out), seg_call.rows)
    /\ gno_call.made =>
          WellFormedOffsets(gno_call.neighbors.neighbors_row_splits, Len(gno_call.x),
                            Len(gno_call.neighbors.neighbors_index))

\* C17: an unknown scheduler, training loss or testing loss string ends the
\* script with ValueError at its selection, and then no Trainer has been
\* constructed and trainer.train has not been called.
UnknownOptionRaises ==
    LET bad_scheduler == ~(config.scheduler \in {"ReduceLROnPlateau", "CosineAnnealingLR", "StepLR"})
        bad_training  == ~(config.training_loss \in {"l2", "weightedl2", "weightedl2drag"})
        bad_testing   == ~(config.testing_loss \in {"l2", "weightedl2"})
    IN /\ (bad_scheduler \/ bad_training \/ bad_testing)
            => (~script.trainer /\ ~script.trained /\ script.pc # "done")
       /\ bad_scheduler
            => script.pc \in {"clamp", "data", "model", "scheduler", "raised"}
       /\ bad_training
            => script.pc \in {"clamp", "data", "model", "scheduler", "training_loss", "raised"}
       /\ bad_testing
            => script.pc \in {"clamp", "data", "model", "scheduler", "training_loss",
                              "testing_loss", "raised"}
       /\ script.pc = "raised" => script.raised = "ValueError"

\* C17, witness: the script has ended with ValueError on the testing loss
\* 'weightedl2drag', after a known scheduler and a known training loss.
TestingLossRejected ==
    /\ script.pc = "raised"
    /\ script.raised = "ValueError"
    /\ ~IsNone(script.scheduler) /\ ~IsNone(script.training_loss)
    /\ config.testing_loss = "weightedl2drag"
    /\ ~script.trainer

\* C19: once the adjustment has run, every entry of config.fnogno.fno_n_modes
\* is <= config.data.sdf_query_resolution, and so is every mode count the model
\* is built with against the query grid the data module is given.
ModesWithinResolution ==
    /\ script.pc \notin {"off", "clamp"}
          => \A d \in 1..3 : config.fno_n_modes[d] <= config.sdf_query_resolution
    /\ (script.pc # "off" /\ ~IsNone(script.model_n_modes))
          => \A d \in 1..3 : Get(script.model_n_modes)[d] <= Get(script.query_res)[d]

\* C20: a construction leaves the list of layer widths it is given as it was:
\* the default list of FNOGNO stays [512, 256], every FNOGNO built with the
\* default has the layers [kernel_in_dim, 512, 256, fno_hidden_channels], and
\* the channel_mlp_layers given to a GNOBlock is the same after __init__.
ConstructionKeepsLists ==
    /\ default_layers = <<512, 256>>
    /\ (fnogno.constructed /\ ~fnogno.args.layers_given)
          => fnogno.kernel_layers =
               <<fnogno.kernel_layers[1], 512, 256, fnogno.args.fno_hidden_channels>>
    /\ (gno.constructed /\ gno.args.channel_mlp_layers # <<>>)
          => gno.caller_layers_after = gno.args.channel_mlp_layers

\* the sum of squared differences of sample i of the batches given
SqDistOfSample(i) ==
    SumOver([ p \in LpGrid |-> (lp_in.x[i][p] - lp_in.y[i][p]) * (lp_in.x[i][p] - lp_in.y[i][p]) ],
            LpGrid)

\* the value v is the square root of r: one square root k*sqrt(s) with k*k*s = r
IsSqrtOf(v, r) ==
    \/ r = 0 /\ \A s \in DOMAIN v.coef : v.coef[s] = 0
    \/ r > 0 /\ \E s \in DOMAIN v.coef :
                   /\ v.coef[s] > 0 /\ v.coef[s] % v.over = 0
                   /\ (v.coef[s] \div v.over) * (v.coef[s] \div v.over) * s = r
                   /\ \A t \in DOMAIN v.coef \ {s} : v.coef[t] = 0

RECURSIVE RangeSum(_, _, _)
RangeSum(values, lo, hi) ==
    IF lo >= hi THEN 0 ELSE values[lo + 1] + RangeSum(values, lo + 1, hi)

\* C11: segment_csr returns len(row_boundaries) - 1 rows; row i is the sum, or
\* the mean, of values[row_boundaries[i] : row_boundaries[i+1]], and it is zero
\* (a defined number) for an empty range under both reductions.
SegmentRowsReduce ==
    csr_call.made =>
      /\ Len(csr_call.out) = Len(csr_call.indptr) - 1
      /\ \A i \in 1..(Len(csr_call.indptr) - 1) :
           LET lo    == csr_call.indptr[i]
               hi    == csr_call.indptr[i + 1]
               total == RangeSum(csr_call.values, lo, hi)
               row   == csr_call.out[i]
           IN /\ row.den # 0
              /\ csr_call.reduce = "sum" => row.num = total * row.den
              /\ csr_call.reduce = "mean" => row.num * (hi - lo) = total * row.den
              /\ lo = hi => row.num = 0

\* C11, witness: a mean has been taken over boundaries with an empty range
\* between two ranges of non-zero values.
MeanWithEmptyRange ==
    /\ csr_call.made
    /\ csr_call.reduce = "mean"
    /\ \E i \in 2..(Len(csr_call.indptr) - 2) :
         /\ csr_call.indptr[i] = csr_call.indptr[i + 1]
         /\ csr_call.out[i - 1].num > 0
         /\ csr_call.out[i + 1].num > 0

\* C12: with reduce='sum', the gradient of the sum of all outputs is 1 at
\* every row of values that lies in some segment and 0 at every row in none.
SumGradientIsIndicator ==
    seg_call.made =>
      \A e \in 0..(seg_call.rows - 1) :
         At0(seg_call.grad, e) =
           (IF \E i \in 1..(Len(seg_call.indptr) - 1) :
                  seg_call.indptr[i] <= e /\ e < seg_call.indptr[i + 1]
            THEN 1 ELSE 0)

\* C12, witness: the test has run backward on data with a row in a segment
\* and a row in no segment.
GradientOneAndZero ==
    /\ seg_call.made
    /\ \E e \in 1..seg_call.rows : seg_call.grad[e] = 1
    /\ \E e \in 1..seg_call.rows : seg_call.grad[e] = 0

----------------------------------------------------------------------------
(* The tensors of the last forward call *)

\* f as the caller passed it
CallF == FOf(fnogno, last_call.in_shape, last_call.f_batch)

\* the call has the grid the model was built for, and f has a batch axis
\* exactly when the model is batched
CallWellFormed ==
    /\ last_call.made
    /\ Len(last_call.in_shape) = fnogno.in_coord_dim
    /\ fnogno.gno_batched <=> ~IsNone(last_call.f_batch)

\* the spatial axes of a tensor, in order
SpatialAxes(t) == SelectSeq(t.dims, LAMBDA d : d.kind = "n")

\* the grid cell of an entry: its positions along the spatial axes
CellOf(entry) == { x \in entry : x[1] = "n" }

\* the leading axes of a result: the batch size of f if the model is batched
LeadingShape(m, f) == IF m.gno_batched THEN <<f.dims[1].size>> ELSE <<>>

AxisOrdersMatchGeometry ==
    fnogno.constructed =>
      LET k == fnogno.in_coord_dim
          first == IF fnogno.gno_batched THEN 1 ELSE 0
      IN /\ { fnogno.forward_order[j] : j \in 1..k } = first..(first + k - 1)
         /\ { fnogno.reverse_order[j] : j \in 1..k } = (first + 1)..(first + k)
         /\ Len(fnogno.forward_order) = k /\ Len(fnogno.reverse_order) = k
         /\ CallWellFormed =>
              LET in_p   == last_call.in_p
                  last   == LatentChannelsLast(fnogno, last_call.latent)
                  f_y    == LatentRows(fnogno, last_call.latent)
                  width  == fnogno.args.fno_hidden_channels
                  n_in   == NumEl(in_p) \div in_p.dims[NDim(in_p)].size
                  batch  == IF fnogno.gno_batched THEN Get(last_call.f_batch) ELSE 1
              IN /\ last.ok /\ f_y.ok
                 /\ f_y.dims[NDim(f_y) - 1].size = n_in
                 /\ \A s \in 0..(batch - 1) : \A r \in 0..(n_in - 1) :
                      \A c \in 0..(width - 1) :
                         LET entry == EntryAt(last, (s * n_in + r) * width + c)
                         IN /\ CellOf(entry)
                                = CellOf(EntryAt(in_p, r * in_p.dims[NDim(in_p)].size))
                            /\ <<"c", 0, c>> \in entry
                            /\ fnogno.gno_batched => <<"b", 0, s>> \in entry

\* C14, witness: a batched model on a grid of three dimensions whose sides
\* differ has flattened the latent grid of a batch of more than one sample.
BatchedRowsOfUnevenGrid ==
    /\ CallWellFormed
    /\ fnogno.gno_batched
    /\ fnogno.in_coord_dim = 3
    /\ Get(last_call.f_batch) > 1
    /\ \E i \in 1..3 : \E j \in 1..3 : last_call.in_shape[i] # last_call.in_shape[j]
    /\ LatentRows(fnogno, last_call.latent).ok

\* C15: the flag given at construction fixes the leading axis of the results:
\* an unbatched model returns a latent grid (hidden, n_1..n_k) and an output
\* (n_out, out_channels), a batched one (b, hidden, n_1..n_k) and
\* (b, n_out, out_channels) for f of batch size b; f with a batch axis the
\* model was not built for gives no result.
BatchAxisFollowsFlag ==
    last_call.made =>
      LET lead == LeadingShape(fnogno, CallF)
      IN /\ CallWellFormed => last_call.latent.ok /\ last_call.out.ok
         /\ last_call.latent.ok =>
              /\ fnogno.gno_batched <=> ~IsNone(last_call.f_batch)
              /\ Shape(last_call.latent) =
                   lead \o <<fnogno.args.fno_hidden_channels>> \o last_call.in_shape
         /\ last_call.out.ok =>
              Shape(last_call.out) =
                lead \o <<last_call.n_out, fnogno.args.out_channels>>

\* C15, witness: a batched model has returned for a batch of one sample, and
\* the results keep the batch axis.
BatchOfOneKeepsAxis ==
    /\ CallWellFormed
    /\ fnogno.gno_batched
    /\ Get(last_call.f_batch) = 1
    /\ last_call.out.ok
    /\ NDim(last_call.out) = 3
    /\ NDim(last_call.latent) = fnogno.in_coord_dim + 2

\* C16: in_p and out_p after a forward call are in_p and out_p before it.
GeometryUnchanged ==
    last_call.made =>
      /\ last_call.in_p_after = last_call.in_p
      /\ last_call.out_p_after = last_call.out_p

\* C16, witness: a batched model without coordinate embedding, whose
\* out_p_embed is out_p itself, has returned an output.
BatchedCallSharingGeometry ==
    /\ CallWellFormed
    /\ fnogno.gno_batched
    /\ IsNone(fnogno.args.gno_coord_embed_dim)
    /\ last_call.out.ok

\* C21: a forward call with ada_in given raises nothing and leaves on the
\* blocks the sinusoidal embedding of ada_in when the model was built with
\* fno_norm = 'ada_in' and fno_ada_in_features, and ada_in itself otherwise.
AdaInReachesBlocks ==
    (last_call.made /\ ~IsNone(last_call.ada_in)) =>
      /\ last_call.result.status = "ok"
      /\ ada_in_embed =
           (IF fnogno.args.fno_norm = "ada_in" /\ ~IsNone(fnogno.args.fno_ada_in_features)
            THEN Embedded(last_call.ada_in)
            ELSE Plain(last_call.ada_in))

====
